---- MODULE Spec2Model ----
(***************************************************************************)
(* Notification scheduling and delivery engine of the assistant app:      *)
(* the Notification React component (renderer) and the                    *)
(* NotificationStorageService behind its IPC handlers (main process).     *)
(*                                                                         *)
(* Time.  The source counts milliseconds since the epoch.  TLC integers   *)
(* are 32 bits wide and 30 days in milliseconds do not fit, so every      *)
(* duration and instant of the model is counted in SECONDS; the source's  *)
(* comparisons are integer comparisons and keep their strictness, one     *)
(* model unit standing for the smallest step of the clock.                *)
(*                                                                         *)
(* React.  A state setter called by a handler is batched; React then      *)
(* renders and runs, in declaration order, the effects whose dependencies *)
(* changed, and renders again while effects set state.  Each action below *)
(* is one handler together with the renders and effects that follow it    *)
(* (operator Commit).  The awaited IPC round trips to the main process    *)
(* are the suspension points: a store operation takes effect in the order *)
(* in which it was requested, and its continuation runs in a later step.  *)
(***************************************************************************)
EXTENDS Integers, Sequences, FiniteSets, TLC

----------------------------------------------------------------------------
(* Timing policy                                                           *)

IMPORTANT_TIMINGS ==
  << [timeMs |-> 30 * 24 * 60 * 60, label |-> "1 month"],
     [timeMs |-> 7 * 24 * 60 * 60,  label |-> "1 week"],
     [timeMs |-> 5 * 24 * 60 * 60,  label |-> "5 days"],
     [timeMs |-> 3 * 24 * 60 * 60,  label |-> "3 days"],
     [timeMs |-> 2 * 24 * 60 * 60,  label |-> "2 days"],
     [timeMs |-> 1 * 24 * 60 * 60,  label |-> "1 day"],
     [timeMs |-> 12 * 60 * 60,      label |-> "12 hours"],
     [timeMs |-> 6 * 60 * 60,       label |-> "6 hours"],
     [timeMs |-> 3 * 60 * 60,       label |-> "3 hours"],
     [timeMs |-> 1 * 60 * 60,       label |-> "1 hour"],
     [timeMs |-> 30 * 60,           label |-> "30 minutes"],
     [timeMs |-> 10 * 60,           label |-> "10 minutes"] >>

REGULAR_TIMINGS ==
  << [timeMs |-> 1 * 60 * 60, label |-> "1 hour"],
     [timeMs |-> 30 * 60,     label |-> "30 minutes"],
     [timeMs |-> 10 * 60,     label |-> "10 minutes"] >>

\* the literal 5 * 60 * 1000 of both scan passes
FiveMinutes == 5 * 60

\* the literal "[IMPORTANT]": a text is the sequence of its characters
ImportantMarker == << "[", "I", "M", "P", "O", "R", "T", "A", "N", "T", "]" >>

\* String.prototype.includes: sub occurs in text at some position
Includes(text, sub) ==
  \E i \in 0..(Len(text) - Len(sub)) : SubSeq(text, i + 1, i + Len(sub)) = sub

HasDescription(event) == event.description # << >>

\* event.description?.includes("[IMPORTANT]") || false
\* description is << >> when the event has none and << text >> otherwise
isImportantEvent(event) ==
  event.description # << >> /\ Includes(event.description[1], ImportantMarker)

TimingsOf(event) ==
  IF isImportantEvent(event) THEN IMPORTANT_TIMINGS ELSE REGULAR_TIMINGS

Digit == << "0", "1", "2", "3", "4", "5", "6", "7", "8", "9" >>

RECURSIVE Decimal(_)
\* the decimal text of a number, as template-literal interpolation writes it
Decimal(n) ==
  IF n < 10 THEN << Digit[n + 1] >>
  ELSE Decimal(n \div 10) \o << Digit[(n % 10) + 1] >>

\* `${event.id}-${timing.timeMs}` as a text, for an id given as a text; the
\* offsets of the model count seconds and timeMs counts milliseconds, which
\* adds three zeros to the decimal text
KeyString(id, timing) ==
  id \o << "-" >> \o Decimal(timing.timeMs) \o << "0", "0", "0" >>

KeyOfEventOnly(event, timing) == << event.id, 0 >>

\* `${event.id}-${timing.timeMs}`: the event id, a dash, the decimal offset.
\* The offset is the text after the last dash, so the string determines the
\* pair and the pair stands for the string.
getNotificationKey(event, timing) == << event.id, timing.timeMs >>

NoKey == << 0, 0 >>

----------------------------------------------------------------------------
(* Sequence helpers                                                        *)

Range(s) == { s[i] : i \in 1..Len(s) }

RECURSIVE SelectSeqBy(_, _)
\* Array.prototype.filter with the predicate given as the set of kept values
SelectSeqBy(s, keep) ==
  IF s = << >> THEN << >>
  ELSE IF Head(s) \in keep THEN << Head(s) >> \o SelectSeqBy(Tail(s), keep)
       ELSE SelectSeqBy(Tail(s), keep)

AppendAll(prev, items) == prev \o items

RECURSIVE AppendNew(_, _)
\* newQueue = [...prev]; items.forEach(x => { if (!newQueue.some(e => e.id
\* === x.id)) newQueue.push(x) })
AppendNew(prev, items) ==
  IF items = << >> THEN prev
  ELSE AppendNew(IF Head(items) \in Range(prev) THEN prev
                 ELSE Append(prev, Head(items)),
                 Tail(items))

----------------------------------------------------------------------------
(* Persistent store (NotificationStorageService)                           *)

RECURSIVE DropId(_, _)
DropId(notifications, id) ==
  IF notifications = << >> THEN << >>
  ELSE IF Head(notifications).id = id THEN DropId(Tail(notifications), id)
       ELSE << Head(notifications) >> \o DropId(Tail(notifications), id)

AppendOnly(notifications, notification) == Append(notifications, notification)

\* filter out the records with the same id, push the new record
saveNotification(notifications, notification) ==
  Append(DropId(notifications, notification.id), notification)

RECURSIVE FirstIndex(_, _, _)
\* Array.prototype.find by id: index of the first record with that id, or 0
FirstIndex(notifications, id, i) ==
  IF i > Len(notifications) THEN 0
  ELSE IF notifications[i].id = id THEN i
       ELSE FirstIndex(notifications, id, i + 1)

MarkEveryRecord(notifications, id) ==
  [i \in 1..Len(notifications) |-> [notifications[i] EXCEPT !.shown = TRUE]]

markAsShown(notifications, id) ==
  LET i == FirstIndex(notifications, id, 1)
  IN IF i = 0 THEN notifications
     ELSE [notifications EXCEPT ![i].shown = TRUE]

DismissEveryRecord(notifications, id) ==
  [i \in 1..Len(notifications) |-> [notifications[i] EXCEPT !.dismissed = TRUE]]

markAsDismissed(notifications, id) ==
  LET i == FirstIndex(notifications, id, 1)
  IN IF i = 0 THEN notifications
     ELSE [notifications EXCEPT ![i].dismissed = TRUE]

RecordPresent(notifications, id) == FirstIndex(notifications, id, 1) # 0

\* true only when the record exists and has been dismissed
notificationExists(notifications, id) ==
  LET i == FirstIndex(notifications, id, 1)
  IN IF i = 0 THEN FALSE ELSE notifications[i].dismissed

IsNeverShown(n, t) == ~n.shown /\ ~n.dismissed /\ n.scheduledTime <= t

\* n => !n.dismissed && n.scheduledTime <= now
IsUnshown(n, t) == ~n.dismissed /\ n.scheduledTime <= t

RECURSIVE getUnshownNotifications(_, _)
\* filter(n => !n.dismissed && n.scheduledTime <= now), as the list of ids
getUnshownNotifications(notifications, t) ==
  IF notifications = << >> THEN << >>
  ELSE LET n == Head(notifications)
           rest == getUnshownNotifications(Tail(notifications), t)
       IN IF IsUnshown(n, t) THEN << n.id >> \o rest
          ELSE rest

\* the StoredNotification built by saveNotificationToStorage.  The
\* denormalised event fields and createdAt are written here and read by no
\* operation of the engine (createdAt only by the retention cleanup); the
\* record keeps the fields the engine and the store queries read.
StoredNotification(event, timing) ==
  [ id            |-> getNotificationKey(event, timing),
    scheduledTime |-> event.startDate - timing.timeMs,
    shown         |-> FALSE,
    dismissed     |-> FALSE ]

\* the same record with the createdAt that saveNotificationToStorage writes
\* (now); the retention cleanup is the only reader of createdAt
StoredNotificationAt(event, timing, t) ==
  [ id            |-> getNotificationKey(event, timing),
    scheduledTime |-> event.startDate - timing.timeMs,
    shown         |-> FALSE,
    dismissed     |-> FALSE,
    createdAt     |-> t ]

OneDay == 24 * 60 * 60

\* thirtyDaysAgo.setDate(thirtyDaysAgo.getDate() - 30), in a zone without
\* a clock change in those 30 days
ThirtyDaysAgo(t) == t - 30 * OneDay

\* n => n.createdAt > thirtyDaysAgo
IsRecent(n, thirtyDaysAgo) == n.createdAt > thirtyDaysAgo

\* the storage after cleanupOldNotifications: lastCleanup is written only
\* when cleanedCount > 0
cleanupOldNotifications(notifications, last, t) ==
  LET Keep(n) == IsRecent(n, ThirtyDaysAgo(t))
      kept == SelectSeq(notifications, Keep)
      cleanedCount == Len(notifications) - Len(kept)
  IN [ notifications |-> kept,
       lastCleanup   |-> IF cleanedCount > 0 THEN t ELSE last ]

\* daysSinceLastCleanup >= 1
CleanupIsDue(last, t) == t - last >= OneDay

autoCleanupIfNeeded(notifications, last, t) ==
  IF CleanupIsDue(last, t) THEN cleanupOldNotifications(notifications, last, t)
  ELSE [ notifications |-> notifications, lastCleanup |-> last ]

----------------------------------------------------------------------------
(* Scan passes, as the loops compute them                                  *)

MissedAfterOneMinute(timeDiff) == timeDiff > 60

\* const isMissed = timeDiff > 5 * 60 * 1000
isMissed(timeDiff) == timeDiff > FiveMinutes

WindowOpenAtEnd(timeDiff) == timeDiff >= 0 /\ timeDiff < FiveMinutes

\* const isWithinWindow = timeDiff >= 0 && timeDiff <= 5 * 60 * 1000
isWithinWindow(timeDiff) == timeDiff >= 0 /\ timeDiff <= FiveMinutes

SaveOnlyFarFuture(notificationTime, t) == notificationTime > t + 2 * FiveMinutes

\* notificationTime > now + 5 * 60 * 1000
isTrulyFuture(notificationTime, t) == notificationTime > t + FiveMinutes

FirstMissedWins(timeDiff, notificationTime, mostRecentNotificationTime) ==
  isMissed(timeDiff) /\ mostRecentNotificationTime = 0

\* if (isMissed && notificationTime > mostRecentNotificationTime)
MoreRecentMissed(timeDiff, notificationTime, mostRecentNotificationTime) ==
  isMissed(timeDiff) /\ notificationTime > mostRecentNotificationTime

RECURSIVE ScanTimings(_, _, _, _, _)
\* the inner loop of checkForMissedNotifications; best.timing is the index of
\* mostRecentMissedTiming in the table (0 for null), best.time is
\* mostRecentNotificationTime
ScanTimings(timings, i, eventStart, t, best) ==
  IF i > Len(timings) THEN best
  ELSE LET notificationTime == eventStart - timings[i].timeMs
           timeDiff == t - notificationTime
       IN ScanTimings(timings, i + 1, eventStart, t,
            IF MoreRecentMissed(timeDiff, notificationTime, best.time)
            THEN [timing |-> i, time |-> notificationTime]
            ELSE best)

mostRecentMissedTiming(event, t) ==
  ScanTimings(TimingsOf(event), 1, event.startDate, t,
              [timing |-> 0, time |-> 0]).timing

\* processedEvents.has(event.id) when the loop reaches events[i]
AlreadyProcessed(events, i) == \E j \in 1..(i - 1) : events[j].id = events[i].id

RECURSIVE NextMissedIndex(_, _, _)
\* the next event, from index i on, for which the outer loop reaches the
\* awaited exists() call; Len(events) + 1 when the loop runs to its end
NextMissedIndex(events, i, t) ==
  IF i > Len(events) THEN i
  ELSE IF ~AlreadyProcessed(events, i) /\ mostRecentMissedTiming(events[i], t) # 0
       THEN i
       ELSE NextMissedIndex(events, i + 1, t)

MissedKeyAt(events, i, t) ==
  getNotificationKey(events[i],
                     TimingsOf(events[i])[mostRecentMissedTiming(events[i], t)])

RECURSIVE EventTimingPairs(_)
\* calendarData.events.forEach(event => timings.forEach(timing => ...)):
\* the pairs in the order in which the nested loops visit them
EventTimingPairs(events) ==
  IF events = << >> THEN << >>
  ELSE LET event == Head(events)
       IN [i \in 1..Len(TimingsOf(event)) |-> << event, TimingsOf(event)[i] >>]
          \o EventTimingPairs(Tail(events))

RECURSIVE DueNew(_, _, _, _, _)
\* newNotifications of checkForNotifications; shown, queue and active are the
\* values of the render that created the callback
DueNew(pairs, t, shown, queue, active) ==
  IF pairs = << >> THEN << >>
  ELSE LET event == Head(pairs)[1]
           timing == Head(pairs)[2]
           notificationTime == event.startDate - timing.timeMs
           notificationKey == getNotificationKey(event, timing)
           timeDiff == t - notificationTime
           alreadyQueued == notificationKey \in Range(queue)
           alreadyActive == notificationKey \in Range(active)
           rest == DueNew(Tail(pairs), t, shown, queue, active)
       IN IF /\ isWithinWindow(timeDiff)
             /\ ~isMissed(timeDiff)
             /\ notificationKey \notin shown
             /\ ~alreadyQueued /\ ~alreadyActive
          THEN << notificationKey >> \o rest
          ELSE rest

RECURSIVE DueSaves(_, _, _)
\* the records that checkForNotifications hands to saveNotificationToStorage
DueSaves(pairs, t, shown) ==
  IF pairs = << >> THEN << >>
  ELSE LET event == Head(pairs)[1]
           timing == Head(pairs)[2]
           notificationTime == event.startDate - timing.timeMs
           rest == DueSaves(Tail(pairs), t, shown)
       IN IF /\ isTrulyFuture(notificationTime, t)
             /\ getNotificationKey(event, timing) \notin shown
          THEN << StoredNotification(event, timing) >> \o rest
          ELSE rest

RECURSIVE SaveAll(_, _)
SaveAll(notifications, records) ==
  IF records = << >> THEN notifications
  ELSE SaveAll(saveNotification(notifications, Head(records)), Tail(records))

----------------------------------------------------------------------------
(* Bounds and the event source                                             *)

\* event lists delivered to the engine in one behaviour, over all lifetimes
MaxDeliveries == 2

\* start of the first event: 40 days after the epoch, so that every
\* notificationTime (start minus at most 30 days) is positive
EventStart == 40 * 24 * 60 * 60

\* Standup has no description; the description of Review is "Q3 [IMPORTANT]"
Standup == [id |-> 1, startDate |-> EventStart, description |-> << >>]
Review == [id |-> 2, startDate |-> EventStart + FiveMinutes + 1,
           description |-> << << "Q", "3", " " >> \o ImportantMarker >>]

\* descriptions an event can carry: none, the empty text, the marker alone,
\* the marker inside a text, the marker in lower case, the marker without
\* its brackets and the marker cut short
Descriptions ==
  { << >>,
    << << >> >>,
    << ImportantMarker >>,
    << << "a", " " >> \o ImportantMarker \o << " ", "b" >> >>,
    << << "[", "i", "m", "p", "o", "r", "t", "a", "n", "t", "]" >> >>,
    << << "I", "M", "P", "O", "R", "T", "A", "N", "T" >> >>,
    << SubSeq(ImportantMarker, 1, 10) >> }

\* the lists the event source delivers; parseICalData sorts by start date
EventLists == { << >>, << Standup, Review >> }

\* the instants at which the clock is read.  The 10-minute reminder of
\* Standup is scheduled at EventStart - 600 and that of Review 301 s later:
\*   instant            Standup 10 min      Review 10 min
\*   EventStart - 600   delta = 0           delta = -301
\*   EventStart - 300   delta = 5 min       delta = -1
\*   EventStart - 299   delta = 5 min + 1   delta = 0
\* the earlier reminders of both events are more than 5 minutes late at all
\* three instants
Instants == { EventStart - 600, EventStart - 300, EventStart - 299 }

FirstInstant == CHOOSE t \in Instants : \A u \in Instants : t <= u

\* the instants at which the clock is read while the store is driven
\* alone: a record created at FirstInstant is 29 days, exactly 30 days and
\* 30 days + 1 old at the last three, and one day lies between the first
\* and the third
StoreInstants ==
  { FirstInstant, FirstInstant + 1, FirstInstant + OneDay,
    FirstInstant + 29 * OneDay, FirstInstant + 30 * OneDay,
    FirstInstant + 30 * OneDay + 1 }

\* the notifications saved while the store is driven alone: the 10-minute
\* reminders of the two events
StoreInputs == { Standup, Review }

----------------------------------------------------------------------------
(* State                                                                   *)

VARIABLES
  now,                  \* the clock (new Date().getTime())
  store,                \* NotificationStorage.notifications
  calendarData,         \* << >> for null, << events >> otherwise
  activeNotifications,  \* sequence of notification ids
  notificationQueue,    \* sequence of notification ids
  shownNotifications,   \* set of notification ids
  hasCheckedMissed,
  init,                 \* position of initialize()/loadMissedNotifications()
  missed,               \* position and locals of checkForMissedNotifications()
  replies,              \* store calls awaiting their reply, oldest first
  timeouts,             \* pending 100ms timeouts of advanceQueue: newQueue[0]
  timer,                \* pending 10 s timeout of the auto-remove effect:
                        \* << >> or << id of the notification it captured >>
  stopped,              \* the component has been unmounted
  restarted,            \* the process has been started again at least once
  delivered,            \* event lists delivered so far, over all lifetimes
  deliveries,           \* event lists delivered in this lifetime
  missedRuns,           \* runs of the missed pass in this lifetime
  everActive,           \* history: ids that occupied the active slot
  cleared,              \* history: ids removed by removeNotification
  dispatched,           \* history: what the passes enqueued or activated
  scanned,              \* history: a due pass over a list has read this clock
  lastCleanup,          \* NotificationStorage.lastCleanup
  sync,                 \* CalendarService: intervalId, the intervals and the
                        \* fetches that are live in the main process
  lastOp                \* history: the last operation of the store, or the
                        \* last answer of the event source

vars == << now, store, calendarData, activeNotifications, notificationQueue,
           shownNotifications, hasCheckedMissed, init, missed, replies,
           timeouts, timer, stopped, restarted, delivered, deliveries, missedRuns,
           everActive, cleared, dispatched, scanned, lastCleanup, sync, lastOp >>

\* the part of the state the engine neither reads nor writes
storeAux == << lastCleanup, sync, lastOp >>

IdleMissed ==
  [pc |-> "idle", events |-> << >>, now0 |-> 0, i |-> 0, acc |-> << >>,
   saved |-> {}, dismissed0 |-> {}, failed |-> {}]

DismissedIds(notifications) ==
  { notifications[i].id : i \in { j \in 1..Len(notifications) :
                                    notifications[j].dismissed } }

Reply(flow, id, val) == [flow |-> flow, id |-> id, val |-> val]

\* The part of the state that renders and effects read and write.
World ==
  [ now |-> now, store |-> store, cal |-> calendarData,
    active |-> activeNotifications, queue |-> notificationQueue,
    shown |-> shownNotifications, checked |-> hasCheckedMissed,
    missed |-> missed, replies |-> replies, missedRuns |-> missedRuns,
    everActive |-> everActive, dispatched |-> dispatched, scanned |-> scanned,
    timer |-> timer ]

Dirty(a, q, s, c, h) == [A |-> a, Q |-> q, S |-> s, C |-> c, H |-> h]
Clean == Dirty(FALSE, FALSE, FALSE, FALSE, FALSE)

----------------------------------------------------------------------------
(* checkForMissedNotifications: from one awaited store call to the next    *)

\* The loop runs on from events[from]: up to the next exists() call, or to
\* the end, where the collected notifications are appended to the queue.
\* Returns the world and whether setNotificationQueue was called.
MissedRunOn(w, m, from) ==
  LET j == NextMissedIndex(m.events, from, m.now0)
  IN IF j <= Len(m.events)
     THEN LET key == MissedKeyAt(m.events, j, m.now0)
          IN [ w |-> [w EXCEPT
                  !.missed = [m EXCEPT !.pc = "exists", !.i = j],
                  !.replies = Append(w.replies,
                     Reply("exists", key, notificationExists(w.store, key)))],
               q |-> FALSE ]
     ELSE [ w |-> [w EXCEPT
               !.missed = [m EXCEPT !.pc = "done", !.i = j],
               !.queue = IF m.acc # << >> THEN AppendNew(w.queue, m.acc)
                         ELSE w.queue],
            q |-> m.acc # << >> ]

\* the effect of line 470 calls checkForMissedNotifications()
StartMissed(w) ==
  MissedRunOn([w EXCEPT !.missedRuns = w.missedRuns + 1],
              [IdleMissed EXCEPT !.events = w.cal[1], !.now0 = w.now,
                                 !.dismissed0 = DismissedIds(w.store)],
              1).w

----------------------------------------------------------------------------
(* One render with its effects                                             *)

\* setActiveNotifications([newNotifications[0]]): the notifications the due
\* pass puts in the active slot
DirectlyShown(newNotifications) == << newNotifications[1] >>

ShowWholeQueue(queue) == queue

\* setActiveNotifications([notificationQueue[0]]) of the queue-processing
\* effect
ShowQueueHead(queue) == << queue[1] >>

\* history record of one notification handed to the queue or the active slot,
\* and by which pass
Dispatch(key, by) == [key |-> key, by |-> by]

CheckMissedOnEveryChange(cal, checked) == cal # << >>

\* if (calendarData && !hasCheckedMissed)
ShouldCheckMissed(cal, checked) == cal # << >> /\ ~checked

\* e1: the queue-processing effect runs; e3: the hasCheckedMissed effect
\* runs; e4: checkForNotifications runs (from its effect or from the
\* interval).  All of them read the rendered state w; their state updates
\* are applied together afterwards, in call order.
Effects(w, e1, e3, e4) ==
  LET promote == e1 /\ w.queue # << >> /\ w.active = << >>
      start == e3 /\ ShouldCheckMissed(w.cal, w.checked)
      w3 == IF start THEN StartMissed(w) ELSE w
      scan == e4 /\ w.cal # << >>
      pairs == IF scan THEN EventTimingPairs(w.cal[1]) ELSE << >>
      new == DueNew(pairs, w.now, w.shown, w.queue, w.active)
      saves == DueSaves(pairs, w.now, w.shown)
      direct == new # << >> /\ w.active = << >>
      toQueue == IF new = << >> THEN << >>
                 ELSE IF direct THEN Tail(new) ELSE new
      active1 == IF direct THEN DirectlyShown(new)
                 ELSE IF promote THEN ShowQueueHead(w.queue)
                 ELSE w.active
      queue1 == IF toQueue # << >> THEN AppendNew(w3.queue, toQueue)
                ELSE w3.queue
  IN [ w |-> [w3 EXCEPT
          !.active = active1,
          !.queue = queue1,
          !.shown = w.shown \cup Range(new),
          !.checked = w.checked \/ start,
          !.store = SaveAll(w3.store, saves),
          !.everActive = w.everActive \cup Range(active1),
          !.dispatched = w.dispatched \cup
             { Dispatch(k, "due") : k \in Range(new) },
          !.scanned = w.scanned \/ scan],
       d |-> Dirty(direct \/ promote, toQueue # << >>, new # << >>,
                   FALSE, start /\ ~w.checked) ]

TimerOutlivesNotification(active, pending) ==
  IF pending # << >> THEN pending
  ELSE IF active = << >> THEN << >> ELSE << active[1] >>

\* the auto-remove effect of a render whose activeNotifications has changed:
\* the cleanup clears the timer of the previous render, and a timer is set
\* for activeNotifications[0] unless the slot is empty
AutoRemoveTimer(active, pending) ==
  IF active = << >> THEN << >> ELSE << active[1] >>

RECURSIVE Commit(_, _)
\* render after render until no effect sets state any more
Commit(w, d) ==
  IF d = Clean THEN w
  ELSE LET w2 == IF d.A THEN [w EXCEPT !.timer = AutoRemoveTimer(w.active, w.timer)]
                 ELSE w
           r == Effects(w2, d.Q \/ d.A, d.C \/ d.S \/ d.H,
                        d.C \/ d.S \/ d.A \/ d.Q)
       IN Commit(r.w, r.d)

\* the state an action leaves behind
Install(w) ==
  /\ store' = w.store
  /\ calendarData' = w.cal
  /\ activeNotifications' = w.active
  /\ notificationQueue' = w.queue
  /\ shownNotifications' = w.shown
  /\ hasCheckedMissed' = w.checked
  /\ missed' = w.missed
  /\ replies' = w.replies
  /\ missedRuns' = w.missedRuns
  /\ everActive' = w.everActive
  /\ dispatched' = w.dispatched
  /\ scanned' = w.scanned
  /\ timer' = w.timer

----------------------------------------------------------------------------
(* Process start                                                           *)

\* mount: every effect runs once; with calendarData null only the last one
\* acts, initialize() calling loadMissedNotifications(), which requests
\* getUnshown from the store
Mounted(notifications, t) ==
  /\ calendarData' = << >>
  /\ activeNotifications' = << >>
  /\ notificationQueue' = << >>
  /\ shownNotifications' = {}
  /\ hasCheckedMissed' = FALSE
  /\ init' = [pc |-> "getUnshown",
              data |-> getUnshownNotifications(notifications, t), i |-> 0]
  /\ missed' = IdleMissed
  /\ replies' = << Reply("getUnshown", NoKey, FALSE) >>
  /\ timeouts' = << >>
  /\ timer' = << >>
  /\ deliveries' = 0
  /\ missedRuns' = 0
  /\ everActive' = {}
  /\ cleared' = {}
  /\ dispatched' = {}
  /\ scanned' = FALSE

\* CalendarService before startPeriodicSync: intervalId is null, no interval
\* is set and no fetch is in flight.  `starts` counts the calls of
\* startPeriodicSync and numbers the intervals; `invoked` is the number of
\* the start whose callback the last step has called, 0 if it called none.
NoSync == [intervalId |-> 0, timers |-> {}, fetches |-> {}, starts |-> 0,
           invoked |-> 0]

\* the first start of the process at instant t over the store file
\* `notifications`
InitAt(notifications, t) ==
  /\ now = t
  /\ store = notifications
  /\ restarted = FALSE
  /\ delivered = 0
  /\ calendarData = << >>
  /\ activeNotifications = << >>
  /\ notificationQueue = << >>
  /\ shownNotifications = {}
  /\ hasCheckedMissed = FALSE
  /\ init = [pc |-> "getUnshown", data |-> << >>, i |-> 0]
  /\ missed = IdleMissed
  /\ replies = << Reply("getUnshown", NoKey, FALSE) >>
  /\ timeouts = << >>
  /\ timer = << >>
  /\ stopped = FALSE
  /\ deliveries = 0
  /\ missedRuns = 0
  /\ everActive = {}
  /\ cleared = {}
  /\ dispatched = {}
  /\ scanned = FALSE
  /\ lastCleanup = t
  /\ sync = NoSync
  /\ lastOp = "none"

\* the first start at FirstInstant over the store file `notifications`,
\* none of whose records is due
InitWith(notifications) == InitAt(notifications, FirstInstant)

\* no store file yet
Init == InitWith(<< >>)

\* the application is closed and started again; the store file survives
Remount ==
  /\ restarted' = TRUE
  /\ stopped' = FALSE
  /\ Mounted(store, now)
  /\ UNCHANGED << now, store, delivered >>

Restart == Remount /\ UNCHANGED storeAux

\* time passes
Tick(t) ==
  /\ t > now
  /\ now' = t
  /\ scanned' = FALSE
  /\ UNCHANGED << storeAux, store, calendarData, activeNotifications, notificationQueue,
                  shownNotifications, hasCheckedMissed, init, missed, replies,
                  timeouts, timer, restarted, stopped, delivered, deliveries, missedRuns, everActive,
                  cleared, dispatched >>

----------------------------------------------------------------------------
(* Rehydration and the first fetch: initialize()                           *)

\* loadMissedNotifications() resumes with the getUnshown response
LoadReply ==
  /\ replies # << >> /\ Head(replies).flow = "getUnshown"
  /\ IF init.data # << >>
     THEN /\ init' = [init EXCEPT !.pc = "markShown", !.i = 1]
          /\ Install(Commit(
               [World EXCEPT
                  !.queue = init.data \o notificationQueue,
                  !.store = markAsShown(store, init.data[1]),
                  !.replies = Append(Tail(replies),
                                     Reply("loadMark", init.data[1], FALSE)),
                  !.dispatched = dispatched \cup
                     { Dispatch(k, "rehydrate") : k \in Range(init.data) }],
               Dirty(FALSE, TRUE, FALSE, FALSE, FALSE)))
     ELSE /\ init' = [init EXCEPT !.pc = "getEvents"]
          /\ Install([World EXCEPT !.replies = Tail(replies)])
  /\ UNCHANGED << storeAux, now, timeouts, restarted, stopped, delivered, deliveries, cleared >>

\* the loop over response.data resumes after one markShown
MarkShownReply ==
  /\ replies # << >> /\ Head(replies).flow = "loadMark"
  /\ LET more == init.i < Len(init.data)
         w == [World EXCEPT
                 !.shown = shownNotifications \cup { init.data[init.i] },
                 !.store = IF more THEN markAsShown(store, init.data[init.i + 1])
                           ELSE store,
                 !.replies =
                    IF more
                    THEN Append(Tail(replies),
                                Reply("loadMark", init.data[init.i + 1], FALSE))
                    ELSE Tail(replies)]
     IN /\ init' = IF more THEN [init EXCEPT !.i = init.i + 1]
                   ELSE [init EXCEPT !.pc = "getEvents"]
        /\ Install(Commit(w, Dirty(FALSE, FALSE, TRUE, FALSE, FALSE)))
  /\ UNCHANGED << storeAux, now, timeouts, restarted, stopped, delivered, deliveries, cleared >>

FetchWithoutWaiting(events) ==
  /\ init.pc \in {"getUnshown", "markShown", "getEvents"}
  /\ delivered < MaxDeliveries
  /\ init' = init
  /\ delivered' = delivered + 1
  /\ deliveries' = deliveries + 1
  /\ Install(Commit([World EXCEPT !.cal = << events >>],
                    Dirty(FALSE, FALSE, FALSE, TRUE, FALSE)))
  /\ UNCHANGED << now, timeouts, restarted, stopped, cleared >>

\* fetchInitialData(): getEvents answers with an event list
fetchInitialData(events) ==
  /\ init.pc = "getEvents"
  /\ delivered < MaxDeliveries
  /\ init' = [init EXCEPT !.pc = "startSync"]
  /\ delivered' = delivered + 1
  /\ deliveries' = deliveries + 1
  /\ Install(Commit([World EXCEPT !.cal = << events >>],
                    Dirty(FALSE, FALSE, FALSE, TRUE, FALSE)))
  /\ UNCHANGED << now, timeouts, restarted, stopped, cleared >>

FetchReply(events) == fetchInitialData(events) /\ UNCHANGED storeAux

\* fetchInitialData(): getEvents fails; setError and setLoading only
fetchInitialDataFailed ==
  /\ init.pc = "getEvents"
  /\ init' = [init EXCEPT !.pc = "startSync"]
  /\ UNCHANGED << now, store, calendarData, activeNotifications,
                  notificationQueue, shownNotifications, hasCheckedMissed,
                  missed, replies, timeouts, timer, restarted, stopped, delivered, deliveries, missedRuns,
                  everActive, cleared, dispatched, scanned >>

FetchFailed == fetchInitialDataFailed /\ UNCHANGED storeAux

\* startSync(): the main process starts the periodic sync
StartSync ==
  /\ init.pc = "startSync"
  /\ init' = [init EXCEPT !.pc = "done"]
  /\ UNCHANGED << storeAux, now, store, calendarData, activeNotifications,
                  notificationQueue, shownNotifications, hasCheckedMissed,
                  missed, replies, timeouts, timer, restarted, stopped, delivered, deliveries, missedRuns,
                  everActive, cleared, dispatched, scanned >>

\* handleCalendarUpdate: the periodic sync pushes an event list
handleCalendarUpdate(events) ==
  /\ init.pc = "done"
  /\ delivered < MaxDeliveries
  /\ delivered' = delivered + 1
  /\ deliveries' = deliveries + 1
  /\ Install(Commit([World EXCEPT !.cal = << events >>],
                    Dirty(FALSE, FALSE, FALSE, TRUE, FALSE)))
  /\ UNCHANGED << now, init, timeouts, restarted, stopped, cleared >>

CalendarUpdate(events) == handleCalendarUpdate(events) /\ UNCHANGED storeAux

\* the 60 s interval calls checkForNotifications
IntervalTick ==
  /\ LET r == Effects(World, FALSE, FALSE, TRUE)
     IN Install(Commit(r.w, r.d))
  /\ UNCHANGED << storeAux, now, init, timeouts, restarted, stopped, delivered, deliveries, cleared >>

----------------------------------------------------------------------------
(* Missed pass: continuations of checkForMissedNotifications               *)

MissedTimingNow ==
  TimingsOf(missed.events[missed.i])[
     mostRecentMissedTiming(missed.events[missed.i], missed.now0)]

\* the loop goes on with the next event: after "Skipping already dismissed
\* notification", and after the catch of a rejected call
SkipMissed(m) ==
  LET r == MissedRunOn([World EXCEPT !.replies = Tail(replies)], m, m.i + 1)
  IN Install(Commit(r.w, Dirty(FALSE, r.q, FALSE, FALSE, FALSE)))

\* the awaited exists() has resolved for the event at missed.i;
\* isDismissed is existsResponse.success && existsResponse.data
ExistsAnswered(isDismissed, m) ==
  /\ LET key == Head(replies).id
         event == m.events[m.i]
     IN IF ~isDismissed
        THEN \* await saveNotificationToStorage(event, mostRecentMissedTiming)
             Install([World EXCEPT
                !.store = saveNotification(store,
                             StoredNotification(event, MissedTimingNow)),
                !.replies = Append(Tail(replies), Reply("save", key, FALSE)),
                !.missed = [m EXCEPT !.pc = "save",
                                     !.saved = m.saved \cup {key}]])
        ELSE SkipMissed(m)
  /\ UNCHANGED << now, init, timeouts, restarted, stopped, delivered, deliveries, cleared >>

\* exists() has answered for the event at missed.i
ExistsReply ==
  /\ replies # << >> /\ Head(replies).flow = "exists"
  /\ ExistsAnswered(Head(replies).val, missed)
  /\ UNCHANGED storeAux

\* save() has answered: push to missedNotifications, mark in memory, loop on
SaveReply ==
  /\ replies # << >> /\ Head(replies).flow = "save"
  /\ LET key == Head(replies).id
         m == [missed EXCEPT !.acc = Append(missed.acc, key)]
         w == [World EXCEPT
                 !.replies = Tail(replies),
                 !.shown = shownNotifications \cup {key},
                 !.dispatched = dispatched \cup
                    { Dispatch(key, "missed") }]
         r == MissedRunOn(w, m, missed.i + 1)
     IN Install(Commit(r.w, Dirty(FALSE, r.q, TRUE, FALSE, FALSE)))
  /\ UNCHANGED << storeAux, now, init, timeouts, restarted, stopped, delivered, deliveries, cleared >>

----------------------------------------------------------------------------
(* Delivery queue                                                          *)

\* an earlier removeNotification is still between its first await and the
\* 100 ms timeout of its advanceQueue
RemovalInFlight ==
  \/ \E i \in 1..Len(replies) : replies[i].flow \in {"rmShown", "rmDismissed"}
  \/ timeouts # << >>

\* the 10 s timer of the active notification fires: removeNotification(id)
\* up to its first await.  The timer was started by the render that followed
\* the previous removal, so it fires after that removal's store round trips
\* (milliseconds) and 100 ms timeout have completed.
AutoRemove ==
  /\ timer # << >>
  /\ ~RemovalInFlight
  /\ LET notificationId == timer[1]
     IN /\ cleared' = cleared \cup {notificationId}
        /\ Install(Commit(
             [World EXCEPT
                !.active = SelectSeqBy(activeNotifications,
                              Range(activeNotifications) \ {notificationId}),
                !.store = markAsShown(store, notificationId),
                !.replies = Append(replies,
                                   Reply("rmShown", notificationId, FALSE))],
             Dirty(TRUE, FALSE, FALSE, FALSE, FALSE)))
  /\ UNCHANGED << storeAux, now, init, timeouts, restarted, stopped, delivered, deliveries >>

\* removeNotification resumes after markShown and requests markDismissed
RemoveShownReply ==
  /\ replies # << >> /\ Head(replies).flow = "rmShown"
  /\ Install([World EXCEPT
        !.store = markAsDismissed(store, Head(replies).id),
        !.replies = Append(Tail(replies),
                           Reply("rmDismissed", Head(replies).id, FALSE))])
  /\ UNCHANGED << storeAux, now, init, timeouts, restarted, stopped, delivered, deliveries, cleared >>

\* prev.slice(1)
advanceQueue(prev) == Tail(prev)

\* removeNotification resumes after markDismissed and calls advanceQueue()
RemoveDismissedReply ==
  /\ replies # << >> /\ Head(replies).flow = "rmDismissed"
  /\ IF notificationQueue # << >>
     THEN LET newQueue == advanceQueue(notificationQueue)
          IN /\ timeouts' = IF newQueue # << >>
                            THEN Append(timeouts, newQueue[1]) ELSE timeouts
             /\ Install(Commit([World EXCEPT !.queue = newQueue,
                                             !.replies = Tail(replies)],
                               Dirty(FALSE, TRUE, FALSE, FALSE, FALSE)))
     ELSE /\ timeouts' = timeouts
          /\ Install([World EXCEPT !.replies = Tail(replies)])
  /\ UNCHANGED << storeAux, now, init, restarted, stopped, delivered, deliveries, cleared >>

\* the 100 ms timeout of advanceQueue:
\* setActiveNotifications(current => current.length === 0 ? [newQueue[0]] : current)
AdvanceTimeout ==
  /\ timeouts # << >>
  /\ timeouts' = Tail(timeouts)
  /\ IF activeNotifications = << >>
     THEN Install(Commit([World EXCEPT !.active = << Head(timeouts) >>,
                             !.everActive = everActive \cup {Head(timeouts)}],
                         Dirty(TRUE, FALSE, FALSE, FALSE, FALSE)))
     ELSE Install(World)
  /\ UNCHANGED << storeAux, now, init, restarted, stopped, delivered, deliveries, cleared >>

----------------------------------------------------------------------------

Next ==
  \/ \E t \in Instants : Tick(t)
  \/ Restart
  \/ LoadReply
  \/ MarkShownReply
  \/ \E events \in EventLists : FetchReply(events)
  \/ FetchFailed
  \/ StartSync
  \/ \E events \in EventLists : CalendarUpdate(events)
  \/ IntervalTick
  \/ ExistsReply
  \/ SaveReply
  \/ AutoRemove
  \/ RemoveShownReply
  \/ RemoveDismissedReply
  \/ AdvanceTimeout

Spec == Init /\ [][Next]_vars

----------------------------------------------------------------------------
(* The store driven alone: the operations of NotificationStorageService   *)
(* as its IPC handlers expose them, in any order, the engine not acting   *)

engineVars ==
  << calendarData, activeNotifications, notificationQueue, shownNotifications,
     hasCheckedMissed, init, missed, replies, timeouts, timer, restarted, stopped, delivered,
     deliveries, missedRuns, everActive, cleared, dispatched, scanned >>

LastTiming(event) == TimingsOf(event)[Len(TimingsOf(event))]

StoreTick(t) ==
  /\ t > now
  /\ now' = t
  /\ lastOp' = "tick"
  /\ UNCHANGED << store, lastCleanup, sync, engineVars >>

\* NOTIFICATION_SAVE with the record saveNotificationToStorage builds
StoreSave(event) ==
  LET notification == StoredNotificationAt(event, LastTiming(event), now)
  IN /\ store' = saveNotification(store, notification)
     /\ lastOp' = IF FirstIndex(store, notification.id, 1) = 0
                  THEN "save" ELSE "replace"
     /\ UNCHANGED << now, lastCleanup, sync, engineVars >>

\* NOTIFICATION_MARK_SHOWN
StoreMarkShown(event) ==
  /\ store' = markAsShown(store, getNotificationKey(event, LastTiming(event)))
  /\ lastOp' = "markShown"
  /\ UNCHANGED << now, lastCleanup, sync, engineVars >>

\* NOTIFICATION_MARK_DISMISSED
StoreMarkDismissed(event) ==
  /\ store' = markAsDismissed(store,
                 getNotificationKey(event, LastTiming(event)))
  /\ lastOp' = "markDismissed"
  /\ UNCHANGED << now, lastCleanup, sync, engineVars >>

\* NOTIFICATION_CLEANUP_OLD
StoreCleanup ==
  LET after == cleanupOldNotifications(store, lastCleanup, now)
  IN /\ store' = after.notifications
     /\ lastCleanup' = after.lastCleanup
     /\ lastOp' = "cleanup"
     /\ UNCHANGED << now, sync, engineVars >>

\* the main process starts: the storage file is loaded and
\* setupIpcHandlers calls autoCleanupIfNeeded
StoreStart ==
  LET after == autoCleanupIfNeeded(store, lastCleanup, now)
  IN /\ store' = after.notifications
     /\ lastCleanup' = after.lastCleanup
     /\ lastOp' = IF CleanupIsDue(lastCleanup, now)
                  THEN "autoCleanup" ELSE "start"
     /\ UNCHANGED << now, sync, engineVars >>

StoreNext ==
  \/ \E t \in StoreInstants : StoreTick(t)
  \/ \E event \in StoreInputs : StoreSave(event)
  \/ \E event \in StoreInputs : StoreMarkShown(event)
  \/ \E event \in StoreInputs : StoreMarkDismissed(event)
  \/ StoreCleanup
  \/ StoreStart

StoreSpec == Init /\ [][StoreNext]_vars

----------------------------------------------------------------------------
(* The engine with failing calls: the event source and exists() can fail   *)
(* during one lifetime of the process                                      *)

\* the exists() call of the event at missed.i has failed
FailedAt(m) == [m EXCEPT !.failed = m.failed \cup { Head(replies).id }]

\* exists() answers { success: false }: isDismissed is false
ExistsError ==
  /\ replies # << >> /\ Head(replies).flow = "exists"
  /\ ExistsAnswered(FALSE, FailedAt(missed))
  /\ UNCHANGED storeAux

\* the exists() call is rejected: the catch logs "Failed to check/save
\* missed notification" and the loop goes on
ExistsRejected ==
  /\ replies # << >> /\ Head(replies).flow = "exists"
  /\ SkipMissed(FailedAt(missed))
  /\ UNCHANGED << storeAux, now, init, timeouts, restarted, stopped, delivered,
                  deliveries, cleared >>

\* a fetch of the periodic sync fails: "Periodic calendar fetch failed" is
\* logged in the main process and the callback is not called
SyncFailureClearsList ==
  /\ init.pc = "done"
  /\ lastOp' = "syncFailed"
  /\ calendarData' = << >>
  /\ UNCHANGED << lastCleanup, sync, now, store, activeNotifications,
                  notificationQueue, shownNotifications, hasCheckedMissed,
                  init, missed, replies, timeouts, timer, restarted, stopped, delivered,
                  deliveries, missedRuns, everActive, cleared, dispatched,
                  scanned >>

SyncFailed ==
  /\ init.pc = "done"
  /\ lastOp' = "syncFailed"
  /\ UNCHANGED << lastCleanup, sync, now, store, engineVars >>

\* the store file an earlier lifetime has left behind: Standup's 30-minute
\* reminder, displayed and cleared
ClearedBefore ==
  << [StoredNotification(Standup, REGULAR_TIMINGS[2])
        EXCEPT !.shown = TRUE, !.dismissed = TRUE] >>

FaultInit == \E notifications \in { << >>, ClearedBefore } : InitWith(notifications)

FaultFetchReply(events) ==
  fetchInitialData(events) /\ lastOp' = "none" /\ UNCHANGED << lastCleanup, sync >>

FaultFetchFailed ==
  fetchInitialDataFailed /\ lastOp' = "fetchFailed" /\ UNCHANGED << lastCleanup, sync >>

FaultCalendarUpdate(events) ==
  handleCalendarUpdate(events) /\ lastOp' = "none" /\ UNCHANGED << lastCleanup, sync >>

FaultNext ==
  \/ \E t \in Instants : Tick(t)
  \/ LoadReply
  \/ \E events \in EventLists : FaultFetchReply(events)
  \/ FaultFetchFailed
  \/ StartSync
  \/ \E events \in EventLists : FaultCalendarUpdate(events)
  \/ SyncFailed
  \/ IntervalTick
  \/ ExistsReply
  \/ ExistsError
  \/ ExistsRejected
  \/ SaveReply
  \/ AutoRemove
  \/ RemoveShownReply
  \/ RemoveDismissedReply
  \/ AdvanceTimeout

\* one lifetime of the process
FaultSpec == FaultInit /\ [][FaultNext]_vars

----------------------------------------------------------------------------
(* The engine with failing markShown / markDismissed: the store calls of    *)
(* removeNotification can fail during one lifetime of the process.  A       *)
(* failed call leaves the store as it was; its reply carries val = TRUE.    *)

\* removeNotification(id) up to its first await, the markShown call failing
RemoveMarkShownFails ==
  /\ timer # << >>
  /\ ~RemovalInFlight
  /\ LET notificationId == timer[1]
     IN /\ cleared' = cleared \cup {notificationId}
        /\ Install(Commit(
             [World EXCEPT
                !.active = SelectSeqBy(activeNotifications,
                              Range(activeNotifications) \ {notificationId}),
                !.replies = Append(replies,
                                   Reply("rmShown", notificationId, TRUE))],
             Dirty(TRUE, FALSE, FALSE, FALSE, FALSE)))
  /\ lastOp' = "markShownFailed"
  /\ UNCHANGED << lastCleanup, sync, now, init, timeouts, restarted, stopped, delivered,
                  deliveries >>

\* advanceQueue() as removeNotification calls it after its try/catch
AdvanceAfterRemove ==
  /\ IF notificationQueue # << >>
     THEN LET newQueue == advanceQueue(notificationQueue)
          IN /\ timeouts' = IF newQueue # << >>
                            THEN Append(timeouts, newQueue[1]) ELSE timeouts
             /\ Install(Commit([World EXCEPT !.queue = newQueue,
                                             !.replies = Tail(replies)],
                               Dirty(FALSE, TRUE, FALSE, FALSE, FALSE)))
     ELSE /\ timeouts' = timeouts
          /\ Install([World EXCEPT !.replies = Tail(replies)])
  /\ UNCHANGED << storeAux, now, init, restarted, stopped, delivered, deliveries, cleared >>

RejectionSkipsAdvance ==
  /\ replies # << >> /\ Head(replies).flow = "rmShown" /\ Head(replies).val
  /\ Install([World EXCEPT !.replies = Tail(replies)])
  /\ UNCHANGED << storeAux, now, init, timeouts, restarted, stopped, delivered,
                  deliveries, cleared >>

\* the failed markShown call is rejected: the catch logs "Failed to update
\* notification status", markDismissed is not called, advanceQueue() is
MarkShownRejected ==
  /\ replies # << >> /\ Head(replies).flow = "rmShown" /\ Head(replies).val
  /\ AdvanceAfterRemove

\* removeNotification resumes after markShown; the markDismissed call fails
MarkDismissedFails ==
  /\ replies # << >> /\ Head(replies).flow = "rmShown"
  /\ Install([World EXCEPT
        !.replies = Append(Tail(replies),
                           Reply("rmDismissed", Head(replies).id, TRUE))])
  /\ lastOp' = "markDismissedFailed"
  /\ UNCHANGED << lastCleanup, sync, now, init, timeouts, restarted, stopped, delivered,
                  deliveries, cleared >>

DismissFaultNext ==
  \/ \E t \in Instants : Tick(t)
  \/ LoadReply
  \/ \E events \in EventLists : FetchReply(events)
  \/ StartSync
  \/ \E events \in EventLists : CalendarUpdate(events)
  \/ IntervalTick
  \/ ExistsReply
  \/ SaveReply
  \/ AutoRemove
  \/ RemoveMarkShownFails
  \/ RemoveShownReply
  \/ MarkShownRejected
  \/ MarkDismissedFails
  \/ RemoveDismissedReply
  \/ AdvanceTimeout

\* one lifetime of the process
DismissFaultSpec == Init /\ [][DismissFaultNext]_vars

----------------------------------------------------------------------------
(* The engine unmounted while calls are in flight.  The cleanups of the     *)
(* effects run; the async functions that were awaiting go on, their state   *)
(* updates reach no component any more, their store calls still do.         *)

\* the React state of the component, which nothing updates after the unmount
reactState ==
  << calendarData, activeNotifications, notificationQueue, shownNotifications,
     hasCheckedMissed, timer, missedRuns, everActive, dispatched, scanned >>

\* the cleanups of the effects: clearTimeout(timer), clearInterval(interval),
\* stopSync() and removeDataUpdatedListener(); nothing cancels the awaited
\* calls or the 100 ms timeout of advanceQueue
Stop ==
  /\ ~stopped
  /\ stopped' = TRUE
  /\ timer' = << >>
  /\ UNCHANGED << storeAux, now, store, calendarData, activeNotifications,
                  notificationQueue, shownNotifications, hasCheckedMissed,
                  init, missed, replies, timeouts, restarted, delivered,
                  deliveries, missedRuns, everActive, cleared, dispatched,
                  scanned >>

\* what a continuation leaves behind after the unmount: its store calls
StoppedInstall(w) ==
  /\ store' = w.store
  /\ replies' = w.replies
  /\ missed' = w.missed
  /\ UNCHANGED reactState

RunningLoadReply == ~stopped /\ LoadReply
RunningFetchReply(events) == ~stopped /\ FetchReply(events)
RunningCalendarUpdate(events) == ~stopped /\ CalendarUpdate(events)
RunningIntervalTick == ~stopped /\ IntervalTick
RunningExistsReply == ~stopped /\ ExistsReply
RunningSaveReply == ~stopped /\ SaveReply
RunningAutoRemove == ~stopped /\ AutoRemove
RunningRemoveShownReply == ~stopped /\ RemoveShownReply
RunningRemoveDismissedReply == ~stopped /\ RemoveDismissedReply
RunningAdvanceTimeout == ~stopped /\ AdvanceTimeout

\* loadMissedNotifications() resumes after the unmount
StoppedLoadReply ==
  /\ stopped
  /\ replies # << >> /\ Head(replies).flow = "getUnshown"
  /\ IF init.data # << >>
     THEN /\ init' = [init EXCEPT !.pc = "markShown", !.i = 1]
          /\ StoppedInstall(
               [World EXCEPT
                  !.store = markAsShown(store, init.data[1]),
                  !.replies = Append(Tail(replies),
                                     Reply("loadMark", init.data[1], FALSE))])
     ELSE /\ init' = [init EXCEPT !.pc = "getEvents"]
          /\ StoppedInstall([World EXCEPT !.replies = Tail(replies)])
  /\ UNCHANGED << storeAux, now, timeouts, restarted, stopped, delivered,
                  deliveries, cleared >>

\* fetchInitialData() is still called and answered; setCalendarData reaches
\* no component
StoppedFetchReply == stopped /\ fetchInitialDataFailed /\ UNCHANGED storeAux

\* the awaited exists() resolves after the unmount: the missed pass goes on
\* and saves
StoppedExistsReply ==
  /\ stopped
  /\ replies # << >> /\ Head(replies).flow = "exists"
  /\ LET key == Head(replies).id
         event == missed.events[missed.i]
     IN IF ~Head(replies).val
        THEN StoppedInstall([World EXCEPT
                !.store = saveNotification(store,
                             StoredNotification(event, MissedTimingNow)),
                !.replies = Append(Tail(replies), Reply("save", key, FALSE)),
                !.missed = [missed EXCEPT !.pc = "save",
                                          !.saved = missed.saved \cup {key}]])
        ELSE StoppedInstall(
               MissedRunOn([World EXCEPT !.replies = Tail(replies)],
                           missed, missed.i + 1).w)
  /\ UNCHANGED << storeAux, now, init, timeouts, restarted, stopped,
                  delivered, deliveries, cleared >>

\* save() resolves after the unmount: the loop goes on to the next event
StoppedSaveReply ==
  /\ stopped
  /\ replies # << >> /\ Head(replies).flow = "save"
  /\ StoppedInstall(
       MissedRunOn([World EXCEPT !.replies = Tail(replies)],
                   [missed EXCEPT !.acc = Append(missed.acc, Head(replies).id)],
                   missed.i + 1).w)
  /\ UNCHANGED << storeAux, now, init, timeouts, restarted, stopped,
                  delivered, deliveries, cleared >>

\* removeNotification resumes after markShown and calls markDismissed
StoppedRemoveShownReply ==
  /\ stopped
  /\ replies # << >> /\ Head(replies).flow = "rmShown"
  /\ StoppedInstall([World EXCEPT
        !.store = markAsDismissed(store, Head(replies).id),
        !.replies = Append(Tail(replies),
                           Reply("rmDismissed", Head(replies).id, FALSE))])
  /\ UNCHANGED << storeAux, now, init, timeouts, restarted, stopped,
                  delivered, deliveries, cleared >>

\* removeNotification resumes after markDismissed; advanceQueue() updates
\* the state of no component
StoppedRemoveDismissedReply ==
  /\ stopped
  /\ replies # << >> /\ Head(replies).flow = "rmDismissed"
  /\ StoppedInstall([World EXCEPT !.replies = Tail(replies)])
  /\ UNCHANGED << storeAux, now, init, timeouts, restarted, stopped,
                  delivered, deliveries, cleared >>

\* a 100 ms timeout of advanceQueue set before the unmount fires
StoppedAdvanceTimeout ==
  /\ stopped
  /\ timeouts # << >>
  /\ timeouts' = Tail(timeouts)
  /\ StoppedInstall(World)
  /\ UNCHANGED << storeAux, now, init, restarted, stopped, delivered,
                  deliveries, cleared >>

StopNext ==
  \/ \E t \in Instants : Tick(t)
  \/ StartSync
  \/ RunningLoadReply
  \/ \E events \in EventLists : RunningFetchReply(events)
  \/ \E events \in EventLists : RunningCalendarUpdate(events)
  \/ RunningIntervalTick
  \/ RunningExistsReply
  \/ RunningSaveReply
  \/ RunningAutoRemove
  \/ RunningRemoveShownReply
  \/ RunningRemoveDismissedReply
  \/ RunningAdvanceTimeout
  \/ Stop
  \/ StoppedLoadReply
  \/ StoppedFetchReply
  \/ StoppedExistsReply
  \/ StoppedSaveReply
  \/ StoppedRemoveShownReply
  \/ StoppedRemoveDismissedReply
  \/ StoppedAdvanceTimeout

\* one lifetime of the process, in which the component can be unmounted
StopSpec == Init /\ [][StopNext]_vars

----------------------------------------------------------------------------
(* One lifetime around the 30-minute tiers                                  *)

\* the instants at which the clock is read in that lifetime.  The 30-minute
\* reminder of Standup is scheduled at EventStart - 1800 and that of Review
\* 301 s later:
\*   instant             Standup 30 min      Review 30 min
\*   EventStart - 1860   delta = -1 min      delta = -361
\*   EventStart - 1800   delta = 0           delta = -301
\*   EventStart - 1500   delta = 5 min       delta = -1
\*   EventStart - 1499   delta = 5 min + 1   delta = 0
TierInstants ==
  { EventStart - 1860, EventStart - 1800, EventStart - 1500, EventStart - 1499 }

TierStart == CHOOSE t \in TierInstants : \A u \in TierInstants : t <= u

TierInit == InitAt(<< >>, TierStart)

TierNext ==
  \/ \E t \in TierInstants : Tick(t)
  \/ LoadReply
  \/ \E events \in EventLists : FetchReply(events)
  \/ StartSync
  \/ \E events \in EventLists : CalendarUpdate(events)
  \/ IntervalTick
  \/ ExistsReply
  \/ SaveReply
  \/ AutoRemove
  \/ RemoveShownReply
  \/ RemoveDismissedReply
  \/ AdvanceTimeout

TierSpec == TierInit /\ [][TierNext]_vars

----------------------------------------------------------------------------
(* The periodic sync of the event source (CalendarService, main process)   *)
(*                                                                         *)
(* intervalId is 0 for null and otherwise the number of the call of        *)
(* startPeriodicSync that set the interval.  `timers` holds the intervals  *)
(* the runtime still fires, `fetches` the calls of fetchCalendarData whose *)
(* promise is pending, each with the start whose callback it will call.    *)

\* calls of startPeriodicSync in one behaviour
MaxSyncStarts == 3

\* stopPeriodicSync(): clearInterval(intervalId), intervalId = null; a fetch
\* that is pending is not touched
stopPeriodicSync(s) ==
  IF s.intervalId # 0
    THEN [s EXCEPT !.timers = @ \ { s.intervalId }, !.intervalId = 0]
    ELSE s

\* startPeriodicSync(callback): stop the running interval, fetch at once
\* (the callback runs when the promise resolves), set the new interval
startPeriodicSync(s) ==
  LET s1 == stopPeriodicSync(s)
      g  == s.starts + 1
  IN  [s1 EXCEPT !.fetches = @ \cup { [start |-> g, kind |-> "initial"] },
                 !.timers = @ \cup { g },
                 !.intervalId = g,
                 !.starts = g]

\* ipcMain CALENDAR_START_SYNC
CALENDAR_START_SYNC ==
  /\ sync.starts < MaxSyncStarts
  /\ sync' = [startPeriodicSync(sync) EXCEPT !.invoked = 0]
  /\ UNCHANGED << now, store, lastCleanup, lastOp, engineVars >>

\* ipcMain CALENDAR_STOP_SYNC
CALENDAR_STOP_SYNC ==
  /\ sync' = [stopPeriodicSync(sync) EXCEPT !.invoked = 0]
  /\ UNCHANGED << now, store, lastCleanup, lastOp, engineVars >>

\* the interval of start g fires: its handler calls fetchCalendarData and
\* awaits it
IntervalFires(g) ==
  /\ g \in sync.timers
  /\ [start |-> g, kind |-> "periodic"] \notin sync.fetches
  /\ sync' = [sync EXCEPT !.fetches = @ \cup { [start |-> g, kind |-> "periodic"] },
                          !.invoked = 0]
  /\ UNCHANGED << now, store, lastCleanup, lastOp, engineVars >>

\* a pending fetch resolves: callback?.(data) of the start that began it
FetchResolves(f) ==
  /\ f \in sync.fetches
  /\ sync' = [sync EXCEPT !.fetches = @ \ { f }, !.invoked = f.start]
  /\ UNCHANGED << now, store, lastCleanup, lastOp, engineVars >>

\* a pending fetch rejects: the error is logged, the callback is not called
FetchRejects(f) ==
  /\ f \in sync.fetches
  /\ sync' = [sync EXCEPT !.fetches = @ \ { f }, !.invoked = 0]
  /\ UNCHANGED << now, store, lastCleanup, lastOp, engineVars >>

SyncNext ==
  \/ CALENDAR_START_SYNC
  \/ CALENDAR_STOP_SYNC
  \/ \E g \in 1..MaxSyncStarts : IntervalFires(g)
  \/ \E g \in 1..MaxSyncStarts, k \in {"initial", "periodic"} :
       FetchResolves([start |-> g, kind |-> k])
  \/ \E g \in 1..MaxSyncStarts, k \in {"initial", "periodic"} :
       FetchRejects([start |-> g, kind |-> k])

SyncSpec == Init /\ [][SyncNext]_vars

----------------------------------------------------------------------------
(* Properties                                                              *)

\* C1: in every reachable state the active slot (activeNotifications) holds
\* 0 or 1 notifications, never more.
C1_SingleActiveSlot == Len(activeNotifications) <= 1

\* C1 witness: a second lifetime has rehydrated, a due pass has dispatched,
\* one notification is active and others wait.
C1_Witness ==
  /\ restarted
  /\ Len(activeNotifications) = 1
  /\ Len(notificationQueue) >= 2
  /\ \E d \in dispatched : d.by = "due"
  /\ \E d \in dispatched : d.by = "rehydrate"
  /\ cleared # {}

AllEvents == { Standup, Review }

\* event.start - offset of the pair a key was derived from
ScheduledTime(key) ==
  (CHOOSE e \in AllEvents : e.id = key[1]).startDate - key[2]

Dispatched(by) == { d.key : d \in { x \in dispatched : x.by = by } }

ShownAndDismissed(notifications, id) ==
  \E i \in 1..Len(notifications) :
     /\ notifications[i].id = id
     /\ notifications[i].shown /\ notifications[i].dismissed

\* C2: if the store holds a record for key K with dismissed=true, no later
\* run of the missed pass or of the due pass enqueues or activates K, also in
\* a new process lifetime while K is still inside its due window.
C2_DismissedNeverRedispatched ==
  [][ /\ \A k \in Dispatched("due")' \ Dispatched("due") :
            ~notificationExists(store, k)
      /\ \A k \in Dispatched("missed")' \ Dispatched("missed") :
            k \notin missed.dismissed0 ]_vars

\* C3: when an active notification has been cleared and the store calls of
\* the transition have answered, the store holds a record for its key with
\* shown=true and dismissed=true, however the notification became active.
C3_ClearedIsPersisted ==
  [][ /\ replies # << >>
      /\ Head(replies).flow = "rmDismissed"
      /\ replies' = Tail(replies)
      => ShownAndDismissed(store', Head(replies).id) ]_vars

\* C4: within one process lifetime a key that removeNotification has cleared
\* from the active slot is never active again.
C4_ClearedNeverActiveAgain ==
  \A k \in Range(activeNotifications) : k \notin cleared

\* C5: every notification that leaves the waiting queue has occupied the
\* active slot; advanceQueue never drops one that was never shown.  (A
\* restart ends the lifetime and is not a removal from the queue.)
C5_LeavesQueueOnlyDisplayed ==
  [][ init'.pc # "getUnshown" =>
        \A k \in Range(notificationQueue) \ Range(notificationQueue') :
           k \in everActive' ]_vars

\* keys that entered the engine in this lifetime and are not yet cleared
Pending == { d.key : d \in dispatched } \ cleared

\* nothing is displayed and no store call, timeout or pass is outstanding:
\* only a new event list, a clock tick or a restart can act
AtRest ==
  /\ activeNotifications = << >>
  /\ replies = << >> /\ timeouts = << >>
  /\ init.pc \in {"getEvents", "startSync", "done"}
  /\ missed.pc \in {"idle", "done"}

\* C6: every notification that enters the queue eventually becomes active
\* and is eventually cleared, and the engine then is Idle with an empty
\* queue.  On finite runs: when the engine has come to rest, every
\* notification that entered in this lifetime has been cleared.
C6_AtRestEverythingCleared ==
  AtRest => Pending = {} /\ notificationQueue = << >>

\* C7: while nothing has been cleared since the engine was Idle with an empty
\* queue, N entered notifications mean one active and N-1 waiting: the
\* active notification is not counted in the waiting queue.
C7_ActiveNotCountedAsWaiting ==
  (cleared = {} /\ dispatched # {} /\ missed.pc \in {"idle", "done"}) =>
     /\ Len(activeNotifications) = 1
     /\ Len(notificationQueue) = Cardinality({ d.key : d \in dispatched }) - 1

\* the missed tiers of an event at clock t, and the latest of them
MissedOffsets(event, t) ==
  LET timings == TimingsOf(event)
  IN { timings[i].timeMs : i \in
         { j \in 1..Len(timings) :
             t - (event.startDate - timings[j].timeMs) > 5 * 60 } }

LatestMissedOffsets(event, t) ==
  LET offsets == MissedOffsets(event, t)
  IN { o \in offsets : \A o2 \in offsets : o <= o2 }

\* C8: in one missed pass at most one notification per event id is persisted
\* or collected for the queue, and it is the missed tier with the latest
\* scheduled time; an event without a missed tier contributes nothing.
C8_LatestMissedOnly ==
  LET promoted == missed.saved \cup Range(missed.acc)
  IN /\ \A k \in promoted :
          \E i \in 1..Len(missed.events) :
             /\ missed.events[i].id = k[1]
             /\ k[2] \in LatestMissedOffsets(missed.events[i], missed.now0)
     /\ \A k1, k2 \in promoted : k1[1] = k2[1] => k1 = k2

\* C8 witness: a pass at EventStart - 299 has finished; Standup had three
\* missed tiers and its 10-minute tier was promoted, Review's 30-minute tier.
C8_Witness ==
  /\ missed.pc = "done"
  /\ missed.now0 = EventStart - 299
  /\ missed.acc = << << 1, 600 >>, << 2, 1800 >> >>
  /\ Cardinality(MissedOffsets(Standup, missed.now0)) = 3
  /\ << 1, 600 >> \in Range(notificationQueue)

\* C9: with delta = now - (event.start - offset) every pair is exactly one of
\* future (delta < 0), due (0 <= delta <= 5 minutes) and missed (delta > 5
\* minutes); the due pass dispatches only due pairs, and every due pair of
\* the list it has scanned is dispatched.
C9_DueWindow ==
  /\ [][ \A d \in dispatched' \ dispatched :
            d.by = "due" =>
               /\ 0 <= now' - ScheduledTime(d.key)
               /\ now' - ScheduledTime(d.key) <= 5 * 60 ]_vars
  /\ [](scanned /\ calendarData # << >> =>
          \A i \in 1..Len(calendarData[1]) :
             LET event == calendarData[1][i]
                 timings == TimingsOf(event)
             IN \A j \in 1..Len(timings) :
                   LET delta == now - (event.startDate - timings[j].timeMs)
                       due == 0 <= delta /\ delta <= 5 * 60
                   IN /\ due => getNotificationKey(event, timings[j])
                                   \in shownNotifications
                      /\ isWithinWindow(delta) <=> due
                      /\ isMissed(delta) <=> (~(delta < 0) /\ ~due))

\* C9 witness: the first list arrived at EventStart - 300; the due pass has
\* dispatched Standup's 10-minute reminder at delta = 5 minutes and has left
\* Review's at delta = -1 alone.
C9_Witness ==
  /\ now = EventStart - 300
  /\ missed.now0 = now
  /\ scanned
  /\ now - ScheduledTime(<< 1, 600 >>) = 5 * 60
  /\ << 1, 600 >> \in Dispatched("due")
  /\ now - ScheduledTime(<< 2, 600 >>) = -1
  /\ << 2, 600 >> \notin shownNotifications

\* C10 as claimed: the missed pass has run once for every event list
\* delivered (the initial fetch and every pushed update).
C10_MissedPassPerDelivery == missedRuns = deliveries

\* C10 amended: the missed pass runs exactly once per process lifetime, on
\* the first event list delivered; later pushed updates and the periodic
\* timer never run it.
C10_MissedPassOncePerLifetime ==
  missedRuns = (IF deliveries > 0 THEN 1 ELSE 0)

\* C10 witness: the first delivery was an empty list, a later update brought
\* events with missed reminders, and the pass has not run again.
C10_Witness ==
  /\ deliveries = 2
  /\ missedRuns = 1
  /\ calendarData = << << Standup, Review >> >>
  /\ missed.pc = "done" /\ missed.events = << >>
  /\ scanned

\* ids of the notifications saved while the store is driven alone, and the
\* id of one that is never saved
StoreIds == { getNotificationKey(event, LastTiming(event)) : event \in StoreInputs }

AbsentId == getNotificationKey(Standup, TimingsOf(Standup)[1])

RecordsWith(notifications, id) ==
  { i \in 1..Len(notifications) : notifications[i].id = id }

Others(notifications, id) ==
  LET Other(n) == n.id # id IN SelectSeq(notifications, Other)

\* C11: after any sequence of save, markShown, markDismissed and cleanup the
\* store holds at most one record per id; a save replaces the record of the
\* same id and leaves the others alone, and saving the same record again
\* leaves the store as it is.
C11_OneRecordPerId ==
  /\ [](\A id \in StoreIds : Cardinality(RecordsWith(store, id)) <= 1)
  /\ [][ lastOp' \in {"save", "replace"} =>
           \E event \in StoreInputs :
              LET r == StoredNotificationAt(event, LastTiming(event), now)
              IN /\ RecordsWith(store', r.id) = { Len(store') }
                 /\ store'[Len(store')] = r
                 /\ Others(store', r.id) = Others(store, r.id)
                 /\ saveNotification(store', r) = store' ]_vars

\* C11 witness: a record was saved over an older record of the same id while
\* a dismissed record of the other id is stored.
C11_Witness ==
  /\ lastOp = "replace"
  /\ Len(store) = 2
  /\ store[1].dismissed
  /\ store[2].createdAt = now /\ now > FirstInstant

\* C12: exists(id) is true exactly when a record with that id is stored and
\* its dismissed flag is true: false for an absent id and for a stored
\* record that is not dismissed, whatever its shown flag.
C12_ExistsIffDismissed ==
  \A id \in StoreIds \cup { AbsentId } :
     notificationExists(store, id) <=>
        \E i \in 1..Len(store) : store[i].id = id /\ store[i].dismissed

\* C12 witness: one id is absent, one record is dismissed and one is shown
\* but not dismissed.
C12_Witness ==
  /\ RecordsWith(store, AbsentId) = {}
  /\ \E i \in 1..Len(store) : store[i].dismissed /\ ~store[i].shown
  /\ \E i \in 1..Len(store) : ~store[i].dismissed /\ store[i].shown
  /\ \E id \in StoreIds : notificationExists(store, id)
  /\ \E id \in StoreIds : ~notificationExists(store, id)

\* C13 as claimed: the query of rehydration returns exactly the records with
\* dismissed=false, regardless of shown and of scheduledTime.
C13_ReturnsAllUndismissed ==
  Range(getUnshownNotifications(store, now)) =
     { store[i].id : i \in { j \in 1..Len(store) : ~store[j].dismissed } }

\* C13 amended: the query returns exactly the records with dismissed=false
\* whose scheduledTime is not later than now, each once, regardless of shown.
C13_ReturnsUndismissedAndScheduled ==
  LET unshown == getUnshownNotifications(store, now)
  IN /\ \A id \in StoreIds :
          (id \in Range(unshown)) <=>
             \E i \in 1..Len(store) :
                /\ store[i].id = id
                /\ ~store[i].dismissed
                /\ store[i].scheduledTime <= now
     /\ Len(unshown) = Cardinality(Range(unshown))

\* C13 witness: a shown, not dismissed record is returned and a not
\* dismissed record scheduled after now is not.
C13_Witness ==
  /\ \E i \in 1..Len(store) :
        /\ store[i].shown /\ ~store[i].dismissed
        /\ store[i].id \in Range(getUnshownNotifications(store, now))
  /\ \E i \in 1..Len(store) :
        /\ ~store[i].dismissed /\ store[i].scheduledTime > now
        /\ store[i].id \notin Range(getUnshownNotifications(store, now))

\* C16: cleanup deletes exactly the records whose createdAt is more than 30
\* days before now and keeps every other record unchanged; a record exactly
\* 30 days old is retained.
C16_CleanupPurgesOlderThan30Days ==
  [][ lastOp' \in {"cleanup", "autoCleanup"} =>
        LET Retained(n) == now - n.createdAt <= 30 * 24 * 60 * 60
        IN store' = SelectSeq(store, Retained) ]_vars

\* C17: every execution of cleanup sets lastCleanup to the current time,
\* whether or not a record was deleted.
C17_CleanupStampsLastCleanup ==
  lastOp \in {"cleanup", "autoCleanup"} => lastCleanup = now

\* C14: once rehydration has completed, every record it loaded stays shown
\* in the store for as long as it is stored: the missed pass and the due pass
\* of the same session do not set shown back to false for a rehydrated key.
C14_RehydratedStaysShown ==
  init.pc \notin {"getUnshown", "markShown"} =>
     \A k \in Dispatched("rehydrate") :
        \A i \in 1..Len(store) : store[i].id = k => store[i].shown

\* C15: when the process starts again after a rehydration has marked its
\* records shown, the records of that rehydration that were not displayed
\* yet are not loaded (announced) a second time.
C15_NoSecondAnnouncement ==
  [][ init'.pc = "getUnshown" /\ init.pc # "getUnshown" =>
        \A k \in Dispatched("rehydrate") \ (everActive \cup cleared) :
           (\E i \in 1..Len(store) : store[i].id = k /\ store[i].shown)
              => k \notin Range(init'.data) ]_vars

Offsets(timings) == [i \in 1..Len(timings) |-> timings[i].timeMs]

StrictlyDescending(offsets) ==
  \A i \in 1..(Len(offsets) - 1) : offsets[i] > offsets[i + 1]

\* the descriptions of Descriptions that contain the marker
MarkedDescriptions ==
  { << ImportantMarker >>,
    << << "a", " " >> \o ImportantMarker \o << " ", "b" >> >> }

PairsOf(events, id) ==
  LET OfEvent(pair) == pair[1].id = id
  IN SelectSeq(EventTimingPairs(events), OfEvent)

\* the tables as the tier policy hands them out, over Descriptions
TierTablesAsClaimed ==
  /\ \A d \in Descriptions :
        TimingsOf([id |-> 0, startDate |-> EventStart, description |-> d]) =
           IF d \in MarkedDescriptions THEN IMPORTANT_TIMINGS
           ELSE REGULAR_TIMINGS
  /\ Len(IMPORTANT_TIMINGS) = 12
  /\ Offsets(REGULAR_TIMINGS) = << 60 * 60, 30 * 60, 10 * 60 >>
  /\ StrictlyDescending(Offsets(IMPORTANT_TIMINGS))
  /\ StrictlyDescending(Offsets(REGULAR_TIMINGS))
  /\ Cardinality(Range(Offsets(IMPORTANT_TIMINGS))) = 12
  /\ Cardinality(Range(Offsets(REGULAR_TIMINGS))) = 3
  /\ Offsets(IMPORTANT_TIMINGS)[1] = 30 * 24 * 60 * 60
  /\ Offsets(IMPORTANT_TIMINGS)[12] = 10 * 60

\* the event lists over which the scan visits the REGULAR offsets for the
\* event without description and the IMPORTANT offsets for the marked event
ListsScannedByPolicy ==
  { events \in EventLists :
      events # << >> =>
        /\ [i \in 1..Len(PairsOf(events, Standup.id)) |->
              PairsOf(events, Standup.id)[i][2].timeMs]
              = Offsets(REGULAR_TIMINGS)
        /\ [i \in 1..Len(PairsOf(events, Review.id)) |->
              PairsOf(events, Review.id)[i][2].timeMs]
              = Offsets(IMPORTANT_TIMINGS) }

\* C18: an event whose description contains "[IMPORTANT]" gets the 12-entry
\* IMPORTANT table and every other event, one without description included,
\* the 3-entry REGULAR table (1 hour, 30 minutes, 10 minutes); the offsets of
\* both tables are pairwise distinct and strictly descending, from 1 month
\* (important) or 1 hour (regular) down to 10 minutes.
C18_TierPolicy ==
  /\ TierTablesAsClaimed
  /\ calendarData # << >> => calendarData[1] \in ListsScannedByPolicy

\* C18 witness: a list with an event without description and an event whose
\* description contains the marker was scanned, and a reminder of each was
\* dispatched.
C18_Witness ==
  /\ calendarData = << << Standup, Review >> >>
  /\ Standup.description = << >>
  /\ \E d \in dispatched : d.key[1] = Standup.id
  /\ \E d \in dispatched : d.key[1] = Review.id

\* C19: when the exists(key) call of the missed pass fails, by an error
\* response or by a rejected call, the pass goes on as if the record were
\* absent and not dismissed: the selected notification is saved and, when
\* the pass has ended, dispatched to the queue.
C19_FailedExistsStillEnqueued ==
  /\ missed.failed \subseteq missed.saved
  /\ missed.pc = "done" => missed.failed \subseteq Dispatched("missed")

FetchFailures == {"fetchFailed", "syncFailed"}

C30_MarkChangesOnlyItsFlag ==
  \A id \in StoreIds \cup { AbsentId } :
     LET shown == markAsShown(store, id)
         dismissed == markAsDismissed(store, id)
     IN /\ Len(shown) = Len(store) /\ Len(dismissed) = Len(store)
        /\ \A i \in 1..Len(store) :
              /\ shown[i] = IF store[i].id = id
                            THEN [store[i] EXCEPT !.shown = TRUE]
                            ELSE store[i]
              /\ dismissed[i] = IF store[i].id = id
                                THEN [store[i] EXCEPT !.dismissed = TRUE]
                                ELSE store[i]
        /\ RecordsWith(store, id) = {} => shown = store /\ dismissed = store

\* C30 witness: markShown has just set the flag of one of two stored
\* records; the other record is neither shown nor dismissed.
C30_Witness ==
  /\ lastOp = "markShown"
  /\ Len(store) = 2
  /\ \E i, j \in 1..2 :
        /\ store[i].shown /\ ~store[i].dismissed
        /\ ~store[j].shown /\ ~store[j].dismissed

\* C21: while a record is stored no operation of the engine turns its shown
\* or dismissed flag from true back to false, and no operation of the engine
\* removes a record.
C21_FlagsNeverReset ==
  [][ \A i \in 1..Len(store) :
        \E j \in 1..Len(store') :
           /\ store'[j].id = store[i].id
           /\ store[i].shown => store'[j].shown
           /\ store[i].dismissed => store'[j].dismissed ]_vars

\* event ids as the source can write them: digits, an id that ends like a
\* key, an id that ends in a dash, letters
KeyIds ==
  { << "1" >>, << "2" >>, << "1", "-", "6", "0", "0", "0", "0", "0" >>,
    << "1", "-" >>, << "u", "i", "d" >> }

AllTimings == Range(IMPORTANT_TIMINGS) \cup Range(REGULAR_TIMINGS)

\* the key text determines the event id and the offset
KeyStringDetermines ==
  \A id1, id2 \in KeyIds : \A t1, t2 \in AllTimings :
     KeyString(id1, t1) = KeyString(id2, t2) =>
        id1 = id2 /\ t1.timeMs = t2.timeMs

Count(s, k) == Cardinality({ i \in 1..Len(s) : s[i] = k })

\* C22: the key is a function of event id and tier offset that tells any
\* two pairs apart; the tiers of one event have pairwise distinct keys, so
\* when the 10-minute tier of a scanned event is due and was not rehydrated
\* in this session, the due pass has dispatched it although the 30-minute
\* tier of the same event was dispatched, and it never dispatches a key a
\* second time.
C22_TiersHaveOwnKeys ==
  /\ [](/\ KeyStringDetermines
        /\ calendarData # << >> =>
             \A i \in 1..Len(calendarData[1]) :
                LET event == calendarData[1][i]
                    timings == TimingsOf(event)
                    n == Len(timings)
                    key10 == getNotificationKey(event, timings[n])
                    key30 == getNotificationKey(event, timings[n - 1])
                    delta == now - (event.startDate - timings[n].timeMs)
                IN /\ \A j, k \in 1..n :
                         getNotificationKey(event, timings[j]) =
                            getNotificationKey(event, timings[k]) => j = k
                   /\ /\ scanned
                      /\ 0 <= delta /\ delta <= 5 * 60
                      /\ key30 \in Dispatched("missed")
                      /\ key10 \notin Dispatched("rehydrate")
                      => key10 \in Dispatched("due"))
  /\ [][ \A k \in Dispatched("due") :
            /\ Count(notificationQueue', k) <= Count(notificationQueue, k)
            /\ (k \notin Range(notificationQueue) /\ k \notin Range(activeNotifications))
                  => k \notin Range(activeNotifications') ]_vars

\* C22 witness: Standup's 30-minute tier was dispatched by the missed pass
\* and its 10-minute tier, in its due window, by the due pass.
C22_Witness ==
  /\ calendarData = << << Standup, Review >> >>
  /\ getNotificationKey(Standup, REGULAR_TIMINGS[2]) \in Dispatched("missed")
  /\ getNotificationKey(Standup, REGULAR_TIMINGS[3]) \in Dispatched("due")
  /\ now - (Standup.startDate - REGULAR_TIMINGS[3].timeMs) <= 5 * 60

ByScanOnly == (Dispatched("due") \cup Dispatched("missed")) \ Dispatched("rehydrate")

IsPrefix(s, t) == Len(s) <= Len(t) /\ SubSeq(t, 1, Len(s)) = s

\* C24: rehydrated notifications are put at the front of the queue in store
\* order, and every rehydrated notification is displayed before any
\* notification that a scan of the same session has added.
C24_RehydratedShownFirst ==
  /\ [](ByScanOnly \cap everActive # {} =>
           Dispatched("rehydrate") \subseteq everActive)
  /\ [][ init.pc = "getUnshown" /\ init'.pc = "markShown" =>
           IsPrefix(init.data, notificationQueue') ]_vars

\* C25: the queue is first in, first out: a notification becomes active only
\* from the head of the queue (or directly, when nothing waits), and what a
\* scan appends goes behind everything that already waits.
C25_QueueIsFifo ==
  [][ /\ (activeNotifications' # << >> /\ activeNotifications' # activeNotifications)
         => \/ notificationQueue = << >>
            \/ activeNotifications'[1] = notificationQueue[1]
      /\ (Len(notificationQueue') > Len(notificationQueue) /\ init.pc # "getUnshown")
         => IsPrefix(notificationQueue, notificationQueue') ]_vars

\* A feed whose VEVENTs share a uid (parseICalData copies event.uid to
\* event.id and removes nothing): the list carries Standup twice.
DupLists == { << Standup, Standup, Review >> }

DupNext ==
  \/ \E t \in Instants : Tick(t)
  \/ Restart
  \/ LoadReply
  \/ MarkShownReply
  \/ \E events \in DupLists : FetchReply(events)
  \/ FetchFailed
  \/ StartSync
  \/ \E events \in DupLists : CalendarUpdate(events)
  \/ IntervalTick
  \/ ExistsReply
  \/ SaveReply
  \/ AutoRemove
  \/ RemoveShownReply
  \/ RemoveDismissedReply
  \/ AdvanceTimeout

\* the engine fed with that list
DupSpec == Init /\ [][DupNext]_vars

\* C26: within one session the due pass dispatches a key at most once: a key
\* it dispatches was not dispatched by it before, was neither waiting nor
\* active, and stands exactly once in the active slot and the queue
\* together afterwards.
C26_DueDispatchesOnce ==
  [][ \A d \in dispatched' \ dispatched :
         d.by = "due" =>
            /\ d.key \notin Dispatched("due")
            /\ d.key \notin Range(notificationQueue)
            /\ d.key \notin Range(activeNotifications)
            /\ Count(activeNotifications' \o notificationQueue', d.key) = 1 ]_vars

\* removeNotification has just emptied the active slot in this step
SlotEmptied ==
  /\ \E i \in 1..Len(replies') : replies'[i].flow = "rmShown"
  /\ \A i \in 1..Len(replies) : replies[i].flow # "rmShown"

\* C27: a key the due pass dispatches goes directly to the active slot only
\* when the slot is empty and no waiting notification is there for the
\* queue-processing step to promote; while a notification is active the due
\* pass leaves the slot as it is and appends the key to the queue.
C27_DirectOnlyIntoEmptySlot ==
  [][ \A d \in dispatched' \ dispatched :
         d.by = "due" =>
            LET occupied == activeNotifications # << >> /\ ~SlotEmptied
            IN /\ occupied => /\ activeNotifications' = activeNotifications
                              /\ d.key \in Range(notificationQueue')
               /\ d.key \in Range(activeNotifications') =>
                     ~occupied /\ notificationQueue = << >> ]_vars

\* the process has just been started again (from a lifetime that had gone
\* beyond the getUnshown request, or for the first time)
Restarted ==
  /\ init'.pc = "getUnshown"
  /\ init.pc # "getUnshown" \/ (~restarted /\ restarted')

MarkFailures == { "markShownFailed", "markDismissedFailed" }

\* the removal whose store call failed ends with this step
FailedRemovalEnds ==
  /\ replies # << >>
  /\ Head(replies).flow \in {"rmShown", "rmDismissed"}
  /\ Head(replies).val
  /\ replies' = Tail(replies)

\* C29: a failing markShown or markDismissed does not stop the dismiss
\* transition: the notification is cleared before the store is called, the
\* removal that met the failure ends with advanceQueue (the head leaves the
\* queue and the 100 ms timeout for the new head is set), and the engine is
\* never left with an empty active slot while notifications wait.
C29_MarkFailureStillAdvances ==
  /\ []((lastOp \in MarkFailures /\ activeNotifications = << >>)
           => notificationQueue = << >>)
  /\ [][ /\ (lastOp' \in MarkFailures /\ SlotEmptied)
              => activeNotifications[1] \in cleared'
         /\ (FailedRemovalEnds /\ notificationQueue # << >>)
              => /\ IsPrefix(Tail(notificationQueue), notificationQueue')
                 /\ Len(notificationQueue) > 1 =>
                       /\ timeouts' # << >>
                       /\ timeouts'[Len(timeouts')] = notificationQueue[2] ]_vars

\* C29 witness: markDismissed has failed for a notification that came from
\* the queue; its record is still undismissed, the removal has run to its
\* end, it has left the queue and the next waiting one is active.
C29_Witness ==
  /\ lastOp = "markDismissedFailed"
  /\ ~RemovalInFlight
  /\ cleared # {}
  /\ activeNotifications # << >>
  /\ activeNotifications[1] \notin cleared
  /\ activeNotifications[1] \in Dispatched("missed")
  /\ \E k \in cleared \cap Dispatched("missed") :
        /\ k \notin Range(notificationQueue)
        /\ \E i \in 1..Len(store) : store[i].id = k /\ ~store[i].dismissed

\* C31: while a notification is active exactly one auto-dismiss timer is
\* pending and it is the timer of the active notification; while the slot
\* is empty none is pending.  The timer that fires therefore always removes
\* the notification that is active.
C31_TimerFollowsActive ==
  /\ Len(timer) <= 1
  /\ activeNotifications # << >> => timer = << activeNotifications[1] >>
  /\ activeNotifications = << >> => timer = << >>

\* C31 witness: one notification was cleared by its timer and another one
\* has taken the slot, with its own timer pending, while a third waits.
C31_Witness ==
  /\ cleared # {}
  /\ activeNotifications # << >>
  /\ activeNotifications[1] \notin cleared
  /\ timer = << activeNotifications[1] >>
  /\ \E k \in Range(notificationQueue) : k # activeNotifications[1]

\* C32: once the engine is stopped no auto-dismiss timer is pending, no
\* due pass dispatches, no notification becomes active, and the calls that
\* were in flight change nothing: no record is written, marked shown or
\* marked dismissed.
C32_NothingAfterStop ==
  /\ [](stopped => timer = << >>)
  /\ [][ stopped =>
           /\ activeNotifications' = activeNotifications
           /\ notificationQueue' = notificationQueue
           /\ dispatched' = dispatched
           /\ scanned' => scanned
           /\ store' = store ]_vars

\* the records of `after` that are dismissed and were not dismissed in `before`
NewlyDismissed(before, after) ==
  { after[i].id : i \in { j \in 1..Len(after) : after[j].dismissed } }
     \ DismissedIds(before)

\* C33: a record becomes dismissed only for a key that has occupied the
\* active slot and was cleared from it; rehydration and the two scan passes
\* dismiss nothing, and a key that only waited is never dismissed.
C33_DismissedOnlyAfterDisplay ==
  [][ NewlyDismissed(store, store') \subseteq (everActive \cap cleared) ]_vars

\* C33 witness: the record of a displayed and cleared key is dismissed
\* while the record of a key that still waits, never displayed, is not.
C33_Witness ==
  /\ \E k \in DismissedIds(store) : k \in everActive /\ k \in cleared
  /\ \E i \in 1..Len(store) :
        /\ ~store[i].dismissed
        /\ store[i].id \in Range(notificationQueue)
        /\ store[i].id \notin everActive

\* C34: in a lifetime in which the list stays, a due pass that reads the
\* clock inside the window of a tier (from its scheduled time to 5 minutes
\* after it) has dispatched the key of that tier, and no due pass dispatches
\* a key before its scheduled time (one minute before it nothing fires) or
\* more than 5 minutes after it.
C34_EveryTierFiresInItsWindow ==
  /\ []((scanned /\ calendarData # << >>) =>
          \A i \in 1..Len(calendarData[1]) :
             LET event == calendarData[1][i]
                 timings == TimingsOf(event)
             IN \A j \in 1..Len(timings) :
                   LET delta == now - (event.startDate - timings[j].timeMs)
                   IN (0 <= delta /\ delta <= 5 * 60)
                         => getNotificationKey(event, timings[j])
                               \in Dispatched("due"))
  /\ [][ \A d \in dispatched' \ dispatched :
            d.by = "due" =>
               /\ ScheduledTime(d.key) <= now'
               /\ now' <= ScheduledTime(d.key) + 5 * 60 ]_vars

\* C34 witness: the list was there one minute before Standup's 30-minute
\* tier; the tier was dispatched by a due pass inside its window, and so
\* was Review's, whose time passed later in the same lifetime.
C34_Witness ==
  /\ now = EventStart - 1499
  /\ calendarData # << >> /\ calendarData[1] # << >>
  /\ getNotificationKey(Standup, REGULAR_TIMINGS[2]) \in Dispatched("due")
  /\ getNotificationKey(Review, IMPORTANT_TIMINGS[11]) \in Dispatched("due")
  /\ getNotificationKey(Standup, REGULAR_TIMINGS[2]) \in everActive

C36_DismissedImpliesShown ==
  \A i \in 1..Len(store) : store[i].dismissed => store[i].shown

\* C37, first half: after any sequence of startPeriodicSync and
\* stopPeriodicSync calls at most one interval of the periodic sync is live,
\* and it is the one intervalId names.
C37_AtMostOneTimer ==
  /\ Cardinality(sync.timers) <= 1
  /\ sync.timers \subseteq { sync.intervalId }

\* C37: at most one periodic fetch timer is active, and the update callback
\* is invoked only on behalf of the sync that is running: never after
\* stopPeriodicSync has returned, nor for a start that a later start has
\* replaced, a fetch that was in flight at that moment included.
C37_NoCallbackAfterStop ==
  /\ [](Cardinality(sync.timers) <= 1)
  /\ [][ sync'.invoked # 0 => sync'.invoked = sync.intervalId ]_vars

\* the case of C37: the sync was stopped or restarted while a fetch of the
\* stopped start was pending, and there was never more than one interval
C37_Witness ==
  /\ \E f \in sync.fetches : f.start # sync.intervalId
  /\ sync.starts >= 2
  /\ Cardinality(sync.timers) = 1
====
